---- MODULE Spec2Model ----
(***************************************************************************)
(* State-machine model of the category-retrieval stage of the Jeju travel  *)
(* chatbot: RetrievalClient (search_vector_db), BatchSplitter              *)
(* (search_with_batching), the category dispatchers and the turn           *)
(* orchestrator.  Time is a discrete clock in seconds; every await of the  *)
(* code is a suspension with a wake-up time.                               *)
(***************************************************************************)
EXTENDS Integers, Sequences, FiniteSets, TLC

\* ------------------------------------------------------------------ bounds
MaxLat == 2
MaxTopK == 3
MaxSources == 3
MaxName == 2
MaxTotal == 22
MaxQLat == 1
MaxText == 4
MaxInterests == 2
MaxMerges == 3

\* ------------------------------------------------------- program constants
max_retries == 3
DirectLimit == 20
BatchPause == 2
SeqBatchSize == 3
SeqPause == 1
StagePause == 5

Cat == {"hotel", "tour", "food", "event"}

\* The outcomes of one client.post: a 200 response, a non-200 status, or a
\* raised exception (httpx.ReadTimeout, httpx.ConnectTimeout, anything else).
FailKinds == {"non200", "ReadTimeout", "ConnectTimeout", "Exception"}

VARIABLES
    now,    \* the clock, in seconds
    lat,    \* lat[c]: the time one request of category c takes (test double)
    f,      \* f[c]: the frame of the search_vector_db call made for category c
    qlat,   \* the time one query-generation LLM call takes (test double)
    b,      \* the frame of a search_with_batching call
    d,      \* the frame of a category dispatch
    o       \* the chatbot: its session id, its checkpoints, the turn in progress;
            \* in SpecPlan and SpecMerge, the frame of one call of the function

vars == <<now, lat, qlat, f, b, d, o>>

\* ------------------------------------------------------------------ helpers
Min(x, y) == IF x <= y THEN x ELSE y

Pow2(n) == 2 ^ n

\* Python's s[:k] for k >= 0
Take(s, k) == SubSeq(s, 1, Min(k, Len(s)))

SeqsUpTo(S, n) == UNION {[1..k -> S] : k \in 0..n}

Ev(kind, val) == [kind |-> kind, val |-> val, at |-> now]

IdleBatch ==
    [pc |-> "idle", cat |-> "hotel", total |-> 0, batch_size |-> 0, batches_needed |-> 0, batch_num |-> 0,
     all_results |-> <<>>, requested |-> <<>>, final |-> <<>>, wake |-> 0]

IdleDispatch ==
    [mode |-> "none", pc |-> "idle", idx |-> 0, qidx |-> 0, wake |-> 0,
     counts |-> [c \in Cat |-> 0], results |-> [c \in Cat |-> <<>>],
     task |-> [c \in Cat |-> "none"], t0 |-> 0, t1 |-> 0,
     cstart |-> [c \in Cat |-> 0], cend |-> [c \in Cat |-> 0], order |-> <<>>]

IdleFrame ==
    [pc |-> "idle", attempt |-> 0, top_k |-> 0, sources |-> <<>>, ok |-> FALSE,
     result |-> <<>>, events |-> <<>>, wake |-> 0]

\* ------------------------------------------------- search_vector_db (fetch)
\* Entering the function and its first loop iteration: attempt 0 posts.
StartFetch(c, k) ==
    [pc |-> "post", attempt |-> 0, top_k |-> k, sources |-> <<>>, ok |-> FALSE,
     result |-> <<>>, events |-> <<Ev("attempt", 0)>>, wake |-> now + lat[c]]

\* The except clauses of the retry loop: which failures are caught.
HandledNoGeneric(kind) == kind \in {"non200", "ReadTimeout", "ConnectTimeout"}

Handled(kind) == kind \in {"non200", "ReadTimeout", "ConnectTimeout", "Exception"}

\* The backoff slept after failed attempt i.
BackoffShifted(i) == Pow2(i + 1)

Backoff(i) == Pow2(i)

\* return sources[:top_k]
TruncateNone(sources, k) == sources

Truncate(sources, k) == Take(sources, k)

\* status 200: the item list is cut to top_k and returned.
OnSuccess(fr, sources) ==
    [fr EXCEPT !.pc = "returned", !.sources = sources, !.ok = TRUE,
               !.result = Truncate(sources, fr.top_k),
               !.events = Append(@, Ev("return", fr.attempt))]

\* A retry loop that has no last attempt.
OnFailureNeverGivesUp(fr, kind) ==
    IF ~Handled(kind)
    THEN [fr EXCEPT !.pc = "raised"]
    ELSE [fr EXCEPT !.pc = "backoff", !.wake = now + Backoff(fr.attempt),
                    !.events = Append(@, Ev("sleep", Backoff(fr.attempt)))]

\* a non-200 status or an exception: back off and retry, or give up empty.
OnFailure(fr, kind) ==
    IF ~Handled(kind)
    THEN [fr EXCEPT !.pc = "raised"]
    ELSE IF fr.attempt < max_retries - 1
    THEN [fr EXCEPT !.pc = "backoff", !.wake = now + Backoff(fr.attempt),
                    !.events = Append(@, Ev("sleep", Backoff(fr.attempt)))]
    ELSE [fr EXCEPT !.pc = "returned", !.result = <<>>,
                    !.events = Append(@, Ev("return", fr.attempt))]

\* after the backoff sleep: `continue`, the next attempt posts.
NextAttempt(c, fr) ==
    [fr EXCEPT !.pc = "post", !.attempt = @ + 1, !.wake = now + lat[c],
               !.events = Append(@, Ev("attempt", fr.attempt + 1))]

\* The response of the pending request of category c arrives.
FetchRespond(c, Srcs) ==
    /\ f[c].pc = "post"
    /\ f[c].wake <= now
    /\ \/ \E s \in Srcs : f' = [f EXCEPT ![c] = OnSuccess(f[c], s)]
       \/ \E kind \in FailKinds : f' = [f EXCEPT ![c] = OnFailure(f[c], kind)]
    /\ UNCHANGED <<now, lat, qlat, b, d, o>>

\* The backoff sleep of category c is over.
FetchRetry(c) ==
    /\ f[c].pc = "backoff"
    /\ f[c].wake <= now
    /\ f' = [f EXCEPT ![c] = NextAttempt(c, f[c])]
    /\ UNCHANGED <<now, lat, qlat, b, d, o>>

\* ------------------------------------------------- orchestrator: its data
\* None is Python's None (also what dict.get gives for a missing key).
None == "None"

\* The truth value Python gives a text field: None and "" are false.
Truthy(v) == v # None /\ v # ""

\* A JSON value read where a list is expected: null, or a list of items.
NullList == [null |-> TRUE, items |-> <<>>]

List(s) == [null |-> FALSE, items |-> s]

\* The truth value Python gives it: None and [] are false.
TruthyList(v) == ~v.null /\ v.items # <<>>

\* UserProfile(): every scalar field None, no interests.
UserProfile ==
    [travel_dates |-> None, duration |-> None, group_type |-> None,
     interests |-> <<>>, budget |-> None, travel_region |-> None]

\* The state chat() builds when the thread has no checkpoint.
NewState ==
    [user_profile |-> UserProfile, conversation_history |-> <<>>,
     results |-> [c \in Cat |-> <<>>], final_response |-> "",
     profile_ready |-> FALSE]

\* The extraction of a turn that has not extracted yet.
NoInfoYet == [travel_dates |-> None, duration |-> None, group_type |-> None,
              interests |-> NullList, budget |-> None, travel_region |-> None]

\* SmartJejuChatbot(): session_id "default", the MemorySaver empty, no turn
\* in progress.  The fields from nturn on record what the turn in progress
\* did: the session id its request carried, the state it started from, the
\* stages at which a call raised, and its response.
IdleChatbot ==
    [session_id |-> "default",
     store |-> [t \in {"default", "s1"} |-> [exists |-> FALSE, values |-> NewState]],
     pc |-> "idle", thread |-> "default", state |-> NewState, idx |-> 0,
     nturn |-> 0, before |-> UserProfile, queries |-> 0, retrievals |-> 0,
     synth |-> 0, response |-> "", request |-> "", began |-> NewState,
     raised |-> {}, failed |-> {}, info |-> NoInfoYet]

\* ------------------------------------------------------------------- clock
Suspended == {c \in Cat : f[c].pc \in {"post", "backoff"}}

DispatchSleeps == {"queries", "pause", "stagepause", "cquery", "cpause"}

PendingWakes ==
    {f[c].wake : c \in Suspended}
    \cup (IF b.pc = "pause" THEN {b.wake} ELSE {})
    \cup (IF d.pc \in DispatchSleeps THEN {d.wake} ELSE {})

\* ------------------------------------------------------ category dispatch
OrderSwapped == <<"hotel", "food", "tour", "event">>

\* The fixed category order of the sequential dispatchers.
Order == <<"hotel", "tour", "food", "event">>

\* A task that is awaited one at a time would start only after the ones
\* before it ended.
TaskMayStartSerial(c) ==
    \A i \in 1..4 : (\E j \in 1..4 : j > i /\ Order[j] = c) =>
        (d.task[Order[i]] = "raised" \/ f[Order[i]].pc \in {"returned", "raised"})

\* Every task of the gather may start as soon as it is created.
TaskMayStart(c) == TRUE

\* Some coroutine can run without waiting: a finished call whose caller has
\* not resumed yet, or a task that was created and has not started.
Runnable ==
    \/ b.pc \in {"direct", "batch"} /\ f[b.cat].pc = "returned"
    \/ d.pc = "search" /\ (b.pc = "done" \/ f[b.cat].pc = "raised")
    \/ d.pc = "csearch" /\ \E c \in Cat : d.task[c] = "fetching" /\ f[c].pc = "returned"
    \/ d.pc = "gather"
         /\ \/ \E c \in Cat : d.task[c] = "ready" /\ TaskMayStart(c)
            \/ \A c \in Cat : d.task[c] = "raised" \/ f[c].pc \in {"returned", "raised"}

\* The event loop sleeps until the earliest wake-up when nothing can run.
Advance ==
    /\ PendingWakes # {}
    /\ \A w \in PendingWakes : w > now
    /\ ~Runnable
    /\ now' = CHOOSE w \in PendingWakes : \A v \in PendingWakes : w <= v
    /\ UNCHANGED <<lat, qlat, f, b, d, o>>

\* --------------------------------------------- specification: a single fetch
AllSources == SeqsUpTo(1..MaxName, MaxSources)

FetchInvoke ==
    /\ f["hotel"].pc = "idle"
    /\ \E k \in 0..MaxTopK : f' = [f EXCEPT !["hotel"] = StartFetch("hotel", k)]
    /\ UNCHANGED <<now, lat, qlat, b, d, o>>

InitFetch ==
    /\ now = 0
    /\ lat \in [Cat -> 1..MaxLat]
    /\ \A c \in Cat \ {"hotel"} : lat[c] = 1
    /\ qlat = 0
    /\ f = [c \in Cat |-> IdleFrame]
    /\ b = IdleBatch
    /\ d = IdleDispatch
    /\ o = IdleChatbot

NextFetch ==
    \/ FetchInvoke
    \/ FetchRespond("hotel", AllSources)
    \/ FetchRetry("hotel")
    \/ Advance

SpecFetch == InitFetch /\ [][NextFetch]_vars

\* ------------------------------------------- search_with_batching (splitFetch)
\* The requests up to this size are passed on unsplit.
IsDirectOffByOne(total) == total <= DirectLimit + 1

IsDirect(total) == total <= DirectLimit

\* (total_count + batch_size - 1) // batch_size
BatchesNeeded(total, bs) == (total + bs - 1) \div bs

\* min(batch_size, total_count - len(all_results))
CurrentBatchSize(fr) == Min(fr.batch_size, fr.total - Len(fr.all_results))

NamesOf(s) == {s[i] : i \in 1..Len(s)}

\* [r for r in batch_results if r.name not in existing_names]
NewResults(acc, batch) == SelectSeq(batch, LAMBDA x : x \notin NamesOf(acc))

\* The call enters: the direct call, or batch 1 of the loop.
BatchStart(c, total, bs) ==
    IF IsDirect(total)
    THEN [IdleBatch EXCEPT !.pc = "direct", !.cat = c, !.total = total,
                           !.batch_size = bs, !.requested = <<total>>]
    ELSE [IdleBatch EXCEPT !.pc = "batch", !.cat = c, !.total = total, !.batch_size = bs,
                           !.batches_needed = BatchesNeeded(total, bs),
                           !.requested = <<Min(bs, total)>>]

\* return await search_vector_db(query, category, top_k=total_count)
BatchDirectReturn(c) ==
    /\ b.cat = c
    /\ b.pc = "direct"
    /\ f[c].pc = "returned"
    /\ b' = [b EXCEPT !.pc = "done", !.final = f[c].result]
    /\ UNCHANGED <<now, lat, qlat, f, d, o>>

\* A loop without the early exit at half of the target.
BatchMergeNoEarlyExit(c) ==
    /\ b.cat = c
    /\ b.pc = "batch"
    /\ f[c].pc = "returned"
    /\ LET acc == b.all_results \o NewResults(b.all_results, f[c].result)
           stop == \/ Len(acc) >= b.total
                   \/ b.batch_num >= b.batches_needed - 1
       IN  b' = IF stop
                THEN [b EXCEPT !.pc = "done", !.all_results = acc,
                               !.final = Take(acc, b.total)]
                ELSE [b EXCEPT !.pc = "pause", !.all_results = acc,
                               !.wake = now + BatchPause]
    /\ UNCHANGED <<now, lat, qlat, f, d, o>>

\* One batch came back: merge it, then stop, pause before the next batch, or
\* leave the loop; final_results = all_results[:total_count].
BatchMerge(c) ==
    /\ b.cat = c
    /\ b.pc = "batch"
    /\ f[c].pc = "returned"
    /\ LET acc == b.all_results \o NewResults(b.all_results, f[c].result)
           stop == \/ Len(acc) >= b.total
                   \/ Len(acc) >= b.total \div 2 /\ b.batch_num >= 2
                   \/ b.batch_num >= b.batches_needed - 1
       IN  b' = IF stop
                THEN [b EXCEPT !.pc = "done", !.all_results = acc,
                               !.final = Take(acc, b.total)]
                ELSE [b EXCEPT !.pc = "pause", !.all_results = acc,
                               !.wake = now + BatchPause]
    /\ UNCHANGED <<now, lat, qlat, f, d, o>>

\* After the pause the next loop iteration requests the next batch.
BatchNext(c) ==
    /\ b.cat = c
    /\ b.pc = "pause"
    /\ b.wake <= now
    /\ b' = [b EXCEPT !.pc = "batch", !.batch_num = @ + 1,
                      !.requested = Append(@, CurrentBatchSize(b))]
    /\ f' = [f EXCEPT ![c] = StartFetch(c, CurrentBatchSize(b))]
    /\ UNCHANGED <<now, lat, qlat, d, o>>

\* --------------------------------------- specification: one splitFetch call
MaxOf(s) == IF s = <<>> THEN 0 ELSE CHOOSE m \in NamesOf(s) : \A x \in NamesOf(s) : x <= m

Fresh(acc, n) == [i \in 1..n |-> MaxOf(acc) + i]

\* What the collaborator may answer to a request for k items while acc is
\* accumulated: nothing, new names (too few, k, or one too many), names
\* already accumulated, and a list that holds one name twice.
BatchSources(acc, k) ==
    {<<>>, Fresh(acc, 1), Fresh(acc, k), Fresh(acc, k + 1)}
    \cup (IF acc # <<>> THEN {Take(acc, k), <<acc[1]>> \o Fresh(acc, k - 1)} ELSE {})
    \cup (IF k >= 2 THEN {<<MaxOf(acc) + 1>> \o Fresh(acc, k - 1)} ELSE {})

BatchSizes == {3, 6}

BatchInvoke ==
    /\ b.pc = "idle"
    /\ \E total \in 1..MaxTotal, bs \in BatchSizes :
          /\ b' = BatchStart("hotel", total, bs)
          /\ f' = [f EXCEPT !["hotel"] = StartFetch("hotel", b'.requested[1])]
    /\ UNCHANGED <<now, lat, qlat, d, o>>

InitBatch ==
    /\ now = 0
    /\ lat = [c \in Cat |-> 1]
    /\ qlat = 0
    /\ f = [c \in Cat |-> IdleFrame]
    /\ b = IdleBatch
    /\ d = IdleDispatch
    /\ o = IdleChatbot

NextBatch ==
    \/ BatchInvoke
    \/ FetchRespond("hotel", BatchSources(b.all_results, f["hotel"].top_k))
    \/ FetchRetry("hotel")
    \/ BatchDirectReturn("hotel")
    \/ BatchMerge("hotel")
    \/ BatchNext("hotel")
    \/ Advance

SpecBatch == InitBatch /\ [][NextBatch]_vars

\* ------------------------------------------------ planner count tables
\* A table whose four-day bucket asks for less food than the three-day one.
CountsTableDip(days) ==
    IF days <= 1 THEN [hotel |-> 3, tour |-> 4, food |-> 3, event |-> 3]
    ELSE IF days <= 2 THEN [hotel |-> 3, tour |-> 6, food |-> 5, event |-> 3]
    ELSE IF days <= 3 THEN [hotel |-> 4, tour |-> 8, food |-> 7, event |-> 3]
    ELSE IF days <= 4 THEN [hotel |-> 4, tour |-> 12, food |-> 6, event |-> 3]
    ELSE IF days <= 5 THEN [hotel |-> 5, tour |-> 15, food |-> 13, event |-> 3]
    ELSE [hotel |-> 5, tour |-> 18, food |-> 16, event |-> 3]

\* A table whose last bucket asks for more than one call can carry.
CountsTableLongTrips(days) ==
    IF days <= 1 THEN [hotel |-> 3, tour |-> 4, food |-> 3, event |-> 3]
    ELSE IF days <= 2 THEN [hotel |-> 3, tour |-> 6, food |-> 5, event |-> 3]
    ELSE IF days <= 3 THEN [hotel |-> 4, tour |-> 8, food |-> 7, event |-> 3]
    ELSE IF days <= 4 THEN [hotel |-> 4, tour |-> 12, food |-> 10, event |-> 3]
    ELSE IF days <= 5 THEN [hotel |-> 5, tour |-> 15, food |-> 13, event |-> 3]
    ELSE [hotel |-> 5, tour |-> 21, food |-> 16, event |-> 3]

\* calculate_search_counts: the bucket of a day count.
CountsTable(days) ==
    IF days <= 1 THEN [hotel |-> 3, tour |-> 4, food |-> 3, event |-> 3]
    ELSE IF days <= 2 THEN [hotel |-> 3, tour |-> 6, food |-> 5, event |-> 3]
    ELSE IF days <= 3 THEN [hotel |-> 4, tour |-> 8, food |-> 7, event |-> 3]
    ELSE IF days <= 4 THEN [hotel |-> 4, tour |-> 12, food |-> 10, event |-> 3]
    ELSE IF days <= 5 THEN [hotel |-> 5, tour |-> 15, food |-> 13, event |-> 3]
    ELSE [hotel |-> 5, tour |-> 18, food |-> 16, event |-> 3]

\* The day/count table of personalized_parallel_search_all.
DemoCountsTable(days) ==
    IF days = 1 THEN [hotel |-> 3, tour |-> 4, food |-> 3, event |-> 2]
    ELSE IF days = 2 THEN [hotel |-> 3, tour |-> 6, food |-> 5, event |-> 3]
    ELSE IF days = 3 THEN [hotel |-> 4, tour |-> 8, food |-> 6, event |-> 3]
    ELSE IF days = 4 THEN [hotel |-> 4, tour |-> 12, food |-> 8, event |-> 4]
    ELSE IF days = 5 THEN [hotel |-> 5, tour |-> 15, food |-> 10, event |-> 5]
    ELSE [hotel |-> 5, tour |-> 18, food |-> 12, event |-> 6]

Cur == Order[d.idx]

\* What the collaborator may answer to a category's request in a dispatch.
DispatchSources(c) ==
    {<<>>, <<CHOOSE i \in 1..4 : Order[i] = c>>}

\* --- sequential mode: parallel_search_all of the multi-agent chatbot
\* The four query-generation LLM calls, one after another, outside any try.
SeqInvoke ==
    /\ d.pc = "idle"
    /\ d.mode = "sequential"
    /\ d' = [d EXCEPT !.pc = "queries", !.qidx = 1, !.wake = now + qlat]
    /\ UNCHANGED <<now, lat, qlat, f, b, o>>

\* search_with_batching(query, category, count, batch_size=3) is called.
SeqCallFrame(fr, c) ==
    [fr EXCEPT !.pc = "search", !.cstart[c] = now, !.task[c] = "fetching",
               !.order = Append(@, c)]

SeqCall(c) ==
    /\ b' = BatchStart(c, d.counts[c], SeqBatchSize)
    /\ f' = [f EXCEPT ![c] = StartFetch(c, b'.requested[1])]

\* A query-generation call ends: it raised (the dispatch raises), the next
\* query is generated, or the first category's search starts.
SeqQuery ==
    /\ d.pc = "queries"
    /\ d.wake <= now
    /\ \/ /\ d' = [d EXCEPT !.pc = "raised"]
          /\ UNCHANGED <<f, b>>
       \/ /\ d.qidx < 4
          /\ d' = [d EXCEPT !.qidx = @ + 1, !.wake = now + qlat]
          /\ UNCHANGED <<f, b>>
       \/ /\ d.qidx = 4
          /\ d' = SeqCallFrame([d EXCEPT !.idx = 1, !.t0 = now], Order[1])
          /\ SeqCall(Order[1])
    /\ UNCHANGED <<now, lat, qlat, o>>

\* The category's search_with_batching returned (or raised: the except
\* clause stores an empty list); then the one-second pause.
SeqCollect ==
    /\ d.pc = "search"
    /\ b.cat = Cur
    /\ b.pc = "done" \/ f[Cur].pc = "raised"
    /\ d' = [d EXCEPT !.pc = "pause", !.wake = now + SeqPause,
                      !.results[Cur] = IF b.pc = "done" THEN b.final ELSE <<>>,
                      !.task[Cur] = IF b.pc = "done" THEN "done" ELSE "raised",
                      !.cend[Cur] = now]
    /\ UNCHANGED <<now, lat, qlat, f, b, o>>

\* After a category's pause: the next category of the stage, the five-second
\* pause between the stages, or the return.
SeqPauseOver ==
    /\ d.pc = "pause"
    /\ d.wake <= now
    /\ \/ /\ d.idx \in {1, 3}
          /\ d' = SeqCallFrame([d EXCEPT !.idx = @ + 1], Order[d.idx + 1])
          /\ SeqCall(Order[d.idx + 1])
       \/ /\ d.idx = 2
          /\ d' = [d EXCEPT !.pc = "stagepause", !.wake = now + StagePause]
          /\ UNCHANGED <<f, b>>
       \/ /\ d.idx = 4
          /\ d' = [d EXCEPT !.pc = "done", !.t1 = now]
          /\ UNCHANGED <<f, b>>
    /\ UNCHANGED <<now, lat, qlat, o>>

SeqStagePauseOver ==
    /\ d.pc = "stagepause"
    /\ d.wake <= now
    /\ d' = SeqCallFrame([d EXCEPT !.idx = 3], Order[3])
    /\ SeqCall(Order[3])
    /\ UNCHANGED <<now, lat, qlat, o>>

\* --- sequential mode: direct_search_all_categories of the single chain
\* A category begins with its query-generation LLM call.
ChainBegin(fr, i) ==
    [fr EXCEPT !.pc = "cquery", !.idx = i, !.wake = now + qlat,
               !.cstart[Order[i]] = now, !.task[Order[i]] = "ready"]

\* The next category, or the end of the loop.
ChainAdvance(fr) ==
    IF fr.idx < 4 THEN ChainBegin(fr, fr.idx + 1)
    ELSE [fr EXCEPT !.pc = "done", !.t1 = now]

ChainInvoke ==
    /\ d.pc = "idle"
    /\ d.mode = "chain"
    /\ d' = ChainBegin([d EXCEPT !.t0 = now], 1)
    /\ UNCHANGED <<now, lat, qlat, f, b, o>>

\* The query came back and the search is posted, or the LLM call raised:
\* the except clause stores an empty list and goes on without pausing.
ChainQueryDone ==
    /\ d.pc = "cquery"
    /\ d.wake <= now
    /\ \/ /\ d' = [d EXCEPT !.pc = "csearch", !.task[Cur] = "fetching",
                            !.order = Append(@, Cur)]
          /\ f' = [f EXCEPT ![Cur] = StartFetch(Cur, d.counts[Cur])]
       \/ /\ d' = ChainAdvance([d EXCEPT !.results[Cur] = <<>>, !.task[Cur] = "raised",
                                         !.cend[Cur] = now])
          /\ UNCHANGED f
    /\ UNCHANGED <<now, lat, qlat, b, o>>

\* The single chain's own search_vector_db: one attempt and no retry; a
\* non-200 status or an exception gives an empty list.
ChainOnFailure(fr) ==
    [fr EXCEPT !.pc = "returned", !.result = <<>>,
               !.events = Append(@, Ev("return", fr.attempt))]

ChainRespond(c, Srcs) ==
    /\ d.pc = "csearch"
    /\ f[c].pc = "post"
    /\ f[c].wake <= now
    /\ \/ \E s \in Srcs : f' = [f EXCEPT ![c] = OnSuccess(f[c], s)]
       \/ f' = [f EXCEPT ![c] = ChainOnFailure(f[c])]
    /\ UNCHANGED <<now, lat, qlat, b, d, o>>

\* all_results[category] = search_results; then the one-second pause.
ChainCollect ==
    /\ d.pc = "csearch"
    /\ f[Cur].pc = "returned"
    /\ d' = [d EXCEPT !.pc = "cpause", !.wake = now + SeqPause,
                      !.results[Cur] = f[Cur].result, !.task[Cur] = "done",
                      !.cend[Cur] = now]
    /\ UNCHANGED <<now, lat, qlat, f, b, o>>

ChainPauseOver ==
    /\ d.pc = "cpause"
    /\ d.wake <= now
    /\ d' = ChainAdvance(d)
    /\ UNCHANGED <<now, lat, qlat, f, b, o>>

\* --- concurrent mode: personalized_parallel_search_all
\* asyncio.gather creates the four tasks at once.
ConcInvoke ==
    /\ d.pc = "idle"
    /\ d.mode = "concurrent"
    /\ d' = [d EXCEPT !.pc = "gather", !.t0 = now, !.task = [c \in Cat |-> "ready"]]
    /\ UNCHANGED <<now, lat, qlat, f, b, o>>

\* A task runs to its first await: it builds its query and posts the
\* search, or it raises.
TaskStart(c) ==
    /\ d.pc = "gather"
    /\ d.task[c] = "ready"
    /\ TaskMayStart(c)
    /\ \/ /\ d' = [d EXCEPT !.task[c] = "fetching", !.cstart[c] = now]
          /\ f' = [f EXCEPT ![c] = StartFetch(c, d.counts[c])]
       \/ /\ d' = [d EXCEPT !.task[c] = "raised", !.cstart[c] = now]
          /\ UNCHANGED f
    /\ UNCHANGED <<now, lat, qlat, b, o>>

\* A task ends when it raised or when its search_vector_db call is over,
\* at the time of that call's last event.
TaskRaised(c) == d.task[c] = "raised" \/ (d.task[c] = "fetching" /\ f[c].pc = "raised")

TaskEnded(c) == TaskRaised(c) \/ (d.task[c] = "fetching" /\ f[c].pc = "returned")

TaskEnd(c) == IF d.task[c] = "raised" THEN d.cstart[c] ELSE f[c].events[Len(f[c].events)].at

\* Without return_exceptions one raising task would raise out of the gather
\* and the except clause would return four empty lists.
GatherResultAllOrNothing(c) ==
    IF \E x \in Cat : TaskRaised(x) THEN <<>> ELSE f[c].result

\* gather(..., return_exceptions=True): a task's slot is its own return
\* value, and an exception in a slot is replaced by an empty list.
GatherResult(c) == IF TaskRaised(c) THEN <<>> ELSE f[c].result

\* All four tasks have ended: the gather returns.
GatherDone ==
    /\ d.pc = "gather"
    /\ \A c \in Cat : TaskEnded(c)
    /\ d' = [d EXCEPT !.pc = "done", !.t1 = now,
                      !.cend = [c \in Cat |-> TaskEnd(c)],
                      !.results = [c \in Cat |-> GatherResult(c)]]
    /\ UNCHANGED <<now, lat, qlat, f, b, o>>

\* ------------------------------------------ specification: one dispatch
Modes == {"concurrent", "sequential", "chain"}

\* A dispatch in one of the three modes, for the counts of a one-day trip
\* (the counts only cap the length of each category's result).
InitDispatch ==
    /\ now = 0
    /\ lat \in [Cat -> 1..MaxLat]
    /\ qlat \in 0..MaxQLat
    /\ f = [c \in Cat |-> IdleFrame]
    /\ b = IdleBatch
    /\ o = IdleChatbot
    /\ \E m \in Modes :
          /\ m = "concurrent" => qlat = 0
          /\ d = [IdleDispatch EXCEPT !.mode = m,
                     !.counts = IF m = "concurrent" THEN DemoCountsTable(1)
                                ELSE CountsTable(1)]

NextDispatch ==
    \/ SeqInvoke
    \/ SeqQuery
    \/ SeqCollect
    \/ SeqPauseOver
    \/ SeqStagePauseOver
    \/ ChainInvoke
    \/ ChainQueryDone
    \/ \E c \in Cat : ChainRespond(c, DispatchSources(c))
    \/ ChainCollect
    \/ ChainPauseOver
    \/ ConcInvoke
    \/ \E c \in Cat : TaskStart(c)
    \/ GatherDone
    \/ \E c \in Cat : d.mode # "chain" /\ FetchRespond(c, DispatchSources(c))
    \/ \E c \in Cat : FetchRetry(c)
    \/ \E c \in Cat : BatchDirectReturn(c)
    \/ Advance

SpecDispatch == InitDispatch /\ [][NextDispatch]_vars

\* The dispatch under the scheduling of the event loop: a coroutine that can
\* run is run, a pending request is answered or times out, and the clock
\* reaches the next wake-up.  Each category answers either at once or as
\* late as the latency bound allows.
InitDispatchLive ==
    /\ InitDispatch
    /\ lat \in [Cat -> {1, MaxLat}]

SpecDispatchLive ==
    InitDispatchLive /\ [][NextDispatch]_vars /\ WF_vars(NextDispatch)

\* ======================================================= one chatbot turn
\* The longest conversation explored, in turns over all sessions.
MaxTurns == 3

\* A merge that puts the new interests in front of the list.
PrependNew(cur, new) ==
    LET NotIn(x) == \A i \in 1..Len(cur) : cur[i] # x
    IN  SelectSeq(new, NotIn) \o cur

\* A merge that appends every interest, present or not.
AppendAll(cur, new) == cur \o new

RECURSIVE AppendNew(_, _)
\* for interest in new_interests: append it unless it is already there.
AppendNew(cur, new) ==
    IF new = <<>> THEN cur
    ELSE AppendNew(IF \E i \in 1..Len(cur) : cur[i] = new[1] THEN cur
                   ELSE Append(cur, new[1]),
                   Tail(new))

\* A merge that copies every key the extraction has a text for, the empty
\* text included, and replaces the interests by the extracted list.
UpdateProfileAssign(p, info) ==
    [travel_dates  |-> IF info.travel_dates # None THEN info.travel_dates ELSE p.travel_dates,
     duration      |-> IF info.duration # None THEN info.duration ELSE p.duration,
     group_type    |-> IF info.group_type # None THEN info.group_type ELSE p.group_type,
     interests     |-> IF ~info.interests.null THEN info.interests.items ELSE p.interests,
     budget        |-> IF info.budget # None THEN info.budget ELSE p.budget,
     travel_region |-> IF info.travel_region # None THEN info.travel_region
                       ELSE p.travel_region]

\* A merge that writes a scalar field only while the profile has none.
UpdateProfileFillOnly(p, info) ==
    [travel_dates  |-> IF Truthy(info.travel_dates) /\ ~Truthy(p.travel_dates)
                       THEN info.travel_dates ELSE p.travel_dates,
     duration      |-> IF Truthy(info.duration) /\ ~Truthy(p.duration)
                       THEN info.duration ELSE p.duration,
     group_type    |-> IF Truthy(info.group_type) /\ ~Truthy(p.group_type)
                       THEN info.group_type ELSE p.group_type,
     interests     |-> IF TruthyList(info.interests) THEN AppendNew(p.interests, info.interests.items)
                       ELSE p.interests,
     budget        |-> IF Truthy(info.budget) /\ ~Truthy(p.budget)
                       THEN info.budget ELSE p.budget,
     travel_region |-> IF Truthy(info.travel_region) /\ ~Truthy(p.travel_region)
                       THEN info.travel_region ELSE p.travel_region]

\* update_profile: a field of profile_info that is truthy replaces the
\* profile's field; its interests are appended when not yet present.
update_profile(p, info) ==
    [travel_dates  |-> IF Truthy(info.travel_dates) THEN info.travel_dates ELSE p.travel_dates,
     duration      |-> IF Truthy(info.duration) THEN info.duration ELSE p.duration,
     group_type    |-> IF Truthy(info.group_type) THEN info.group_type ELSE p.group_type,
     interests     |-> IF TruthyList(info.interests) THEN AppendNew(p.interests, info.interests.items)
                       ELSE p.interests,
     budget        |-> IF Truthy(info.budget) THEN info.budget ELSE p.budget,
     travel_region |-> IF Truthy(info.travel_region) THEN info.travel_region
                       ELSE p.travel_region]

\* bool() of a text field and of the interests list, as sum() counts them.
Bool(v) == IF Truthy(v) THEN 1 ELSE 0

BoolList(l) == IF l # <<>> THEN 1 ELSE 0

\* A judgement that asks for exactly three fields.
IsSufficientExactlyThree(p) ==
    Bool(p.travel_dates) + Bool(p.duration) + Bool(p.group_type)
        + BoolList(p.interests) + Bool(p.budget) + Bool(p.travel_region) = 3

\* A judgement that asks for two fields only.
IsSufficientWithTwo(p) ==
    Bool(p.travel_dates) + Bool(p.duration) + Bool(p.group_type)
        + BoolList(p.interests) + Bool(p.budget) + Bool(p.travel_region) >= 2

\* is_profile_sufficient: at least 3 of the 6 fields are truthy.
is_profile_sufficient(p) ==
    Bool(p.travel_dates) + Bool(p.duration) + Bool(p.group_type)
        + BoolList(p.interests) + Bool(p.budget) + Bool(p.travel_region) >= 3

\* What extract_profile_info can return: the parsed JSON object, or {} when
\* the LLM call or the parse raised.  A key that is absent reads as None.
NoInfo == [travel_dates |-> None, duration |-> None, group_type |-> None,
           interests |-> NullList, budget |-> None, travel_region |-> None]

Extractions ==
    { NoInfo,
      [NoInfo EXCEPT !.duration = "2n3d"],
      [NoInfo EXCEPT !.duration = "3n4d", !.group_type = "couple"],
      [NoInfo EXCEPT !.interests = List(<<"food">>), !.budget = ""],
      [NoInfo EXCEPT !.budget = "low", !.interests = List(<<>>)] }

\* An extractor that answers an unparsable reply with a guessed duration.
ExtractOutcomesGuess ==
    {[info |-> i, raised |-> FALSE] : i \in Extractions}
        \cup {[info |-> [NoInfo EXCEPT !.duration = "2n3d"], raised |-> TRUE]}

\* What profile_collector_node gets from extract_profile_info: the parsed
\* object, or {} from the except clause when the LLM call raised or its
\* output was not JSON.
ExtractOutcomes ==
    {[info |-> i, raised |-> FALSE] : i \in Extractions}
        \cup {[info |-> NoInfo, raised |-> TRUE]}

\* The fixed texts of the three except clauses.
CollectFallback == "tell me more"

SynthApology == "sorry, itinerary error"

ChatFallback == "sorry, temporary error"

ShouldContinueAlways(st) == "parallel_search"

\* should_continue_to_agents: the edge out of profile_collector.
should_continue_to_agents(st) == IF st.profile_ready THEN "parallel_search" ELSE "end"

\* The session ids a request can carry; "" is a request without one.
RequestIds == {"", "s1"}

\* chat_endpoint and the head of SmartJejuChatbot.chat: a request with a
\* session id sets the shared chatbot's session_id, the thread is that
\* session_id, and the turn starts from the thread's checkpoint if it has one.
\* When aget_state raises, the inner except builds a new state.
chat_endpoint(sid) ==
    /\ o.pc \in {"idle", "returned"}
    /\ o.nturn < MaxTurns
    /\ \E loaded \in BOOLEAN :
          LET sess == IF sid # "" THEN sid ELSE o.session_id
              st == IF loaded /\ o.store[sess].exists THEN o.store[sess].values
                    ELSE NewState
          IN  o' = [o EXCEPT !.session_id = sess, !.thread = sess, !.state = st,
                             !.pc = "extract", !.idx = 0, !.nturn = @ + 1,
                             !.before = st.user_profile, !.queries = 0,
                             !.retrievals = 0, !.synth = 0, !.response = "",
                             !.request = sid, !.began = st, !.failed = {},
                             !.info = NoInfoYet,
                             !.raised = IF loaded THEN {} ELSE {"load"}]
    /\ UNCHANGED <<now, lat, qlat, f, b, d>>

\* profile_collector returns st: the checkpoint is written and the
\* conditional edge is followed; on "end" chat returns final_response.
CollectorReturns(oo, st) ==
    [oo EXCEPT !.state = st,
              !.store[o.thread] = [exists |-> TRUE, values |-> st],
              !.pc = IF should_continue_to_agents(st) = "parallel_search"
                     THEN "queries" ELSE "returned",
              !.response = IF should_continue_to_agents(st) = "parallel_search"
                           THEN @ ELSE st.final_response]

\* profile_collector_node up to its second await: the user message is
\* logged, the extraction is merged, and the profile is judged.
profile_collector_node ==
    /\ o.pc = "extract"
    /\ \E x \in ExtractOutcomes :
          LET st == [o.state EXCEPT
                        !.conversation_history = Append(@, "user"),
                        !.user_profile = update_profile(@, x.info)]
              oo == [o EXCEPT !.raised = IF x.raised THEN @ \cup {"extract"} ELSE @,
                              !.info = x.info]
          IN  IF ~is_profile_sufficient(st.user_profile)
              THEN o' = [oo EXCEPT !.state = st, !.pc = "collect"]
              ELSE o' = CollectorReturns(oo, [st EXCEPT !.profile_ready = TRUE])
    /\ UNCHANGED <<now, lat, qlat, f, b, d>>

\* generate_info_collection_response ends (the LLM's follow-up, or the fixed
\* text when the call raised) and profile_collector_node returns not ready.
generate_info_collection_response ==
    /\ o.pc = "collect"
    /\ \E r \in {"followup", CollectFallback} :
          o' = CollectorReturns(
                  [o EXCEPT !.raised = IF r = CollectFallback THEN @ \cup {"collect"} ELSE @],
                  [o.state EXCEPT !.conversation_history = Append(@, "assistant"),
                                  !.final_response = r,
                                  !.profile_ready = FALSE])
    /\ UNCHANGED <<now, lat, qlat, f, b, d>>

\* A chat without its except clause: the exception of a query-generation
\* call leaves the turn without a response.
GenerateQueryUncaught ==
    /\ o.pc = "queries"
    /\ \/ o' = [o EXCEPT !.queries = @ + 1,
                         !.pc = IF o.queries = 3 THEN "search" ELSE @,
                         !.idx = IF o.queries = 3 THEN 1 ELSE @]
       \/ o' = [o EXCEPT !.queries = @ + 1, !.pc = "crashed",
                         !.raised = @ \cup {"query"}]
    /\ UNCHANGED <<now, lat, qlat, f, b, d>>

\* parallel_search_all, one of its four query-generation LLM calls: it
\* returns, or it raises out of the graph and chat's except clause answers.
generate_query ==
    /\ o.pc = "queries"
    /\ \/ o' = [o EXCEPT !.queries = @ + 1,
                         !.pc = IF o.queries = 3 THEN "search" ELSE @,
                         !.idx = IF o.queries = 3 THEN 1 ELSE @]
       \/ o' = [o EXCEPT !.queries = @ + 1, !.pc = "returned", !.response = ChatFallback,
                         !.raised = @ \cup {"query"}]
    /\ UNCHANGED <<now, lat, qlat, f, b, d>>

\* How one category's search_with_batching call can end: it returns the
\* items it retrieved, or it failed (search_vector_db gave [] after its last
\* attempt, or the call raised into the except clause of the loop).
CategoryOutcomes(c) ==
    {[failed |-> FALSE, items |-> r] : r \in DispatchSources(c)}
        \cup {[failed |-> TRUE, items |-> <<>>]}

\* A loop without its try/except: the failure of a category is not recorded
\* as [] but raises out of the graph.
SearchCategoryAborts ==
    /\ o.pc = "search"
    /\ \E x \in CategoryOutcomes(Order[o.idx]) :
          LET st == [o.state EXCEPT !.results[Order[o.idx]] = x.items]
          IN  o' = IF x.failed
                   THEN [o EXCEPT !.retrievals = @ + 1, !.pc = "returned",
                                  !.response = ChatFallback, !.failed = @ \cup {Order[o.idx]}]
                   ELSE [o EXCEPT !.state = st, !.retrievals = @ + 1,
                                  !.idx = IF o.idx < 4 THEN @ + 1 ELSE @,
                                  !.pc = IF o.idx < 4 THEN @ ELSE "synth",
                                  !.store[o.thread] =
                                      IF o.idx < 4 THEN @ ELSE [exists |-> TRUE, values |-> st]]
    /\ UNCHANGED <<now, lat, qlat, f, b, d>>

\* parallel_search_all, one category's search_with_batching call with its
\* try/except; after the fourth the node returns and the checkpoint is written.
search_category ==
    /\ o.pc = "search"
    /\ \E x \in CategoryOutcomes(Order[o.idx]) :
          LET st == [o.state EXCEPT !.results[Order[o.idx]] = x.items]
          IN  o' = [o EXCEPT !.state = st, !.retrievals = @ + 1,
                             !.failed = IF x.failed THEN @ \cup {Order[o.idx]} ELSE @,
                             !.idx = IF o.idx < 4 THEN @ + 1 ELSE @,
                             !.pc = IF o.idx < 4 THEN @ ELSE "synth",
                             !.store[o.thread] =
                                 IF o.idx < 4 THEN @ ELSE [exists |-> TRUE, values |-> st]]
    /\ UNCHANGED <<now, lat, qlat, f, b, d>>

\* A node without its try/except: a failed synthesis call raises out of the
\* graph, no checkpoint is written and chat's except clause answers.
ResponseGeneratorRaises ==
    /\ o.pc = "synth"
    /\ \/ LET st == [o.state EXCEPT !.final_response = "itinerary",
                                     !.conversation_history = Append(@, "assistant")]
          IN  o' = [o EXCEPT !.state = st, !.synth = @ + 1,
                             !.store[o.thread] = [exists |-> TRUE, values |-> st],
                             !.pc = "returned", !.response = st.final_response,
                             !.failed = {}]
       \/ o' = [o EXCEPT !.synth = @ + 1, !.pc = "returned", !.response = ChatFallback,
                         !.failed = {}, !.raised = @ \cup {"synth"}]
    /\ UNCHANGED <<now, lat, qlat, f, b, d>>

\* response_generator_node: the itinerary is logged and returned, or the
\* call failed or timed out and the apology is returned; chat returns it.
response_generator_node ==
    /\ o.pc = "synth"
    /\ \E st \in {[o.state EXCEPT !.final_response = "itinerary",
                                  !.conversation_history = Append(@, "assistant")],
                  [o.state EXCEPT !.final_response = SynthApology]} :
          o' = [o EXCEPT !.state = st, !.synth = @ + 1,
                         !.store[o.thread] = [exists |-> TRUE, values |-> st],
                         !.pc = "returned", !.response = st.final_response,
                         !.failed = {},
                         !.raised = IF st.final_response = SynthApology
                                    THEN @ \cup {"synth"} ELSE @]
    /\ UNCHANGED <<now, lat, qlat, f, b, d>>

InitTurn ==
    /\ now = 0
    /\ lat = [c \in Cat |-> 1]
    /\ qlat = 0
    /\ f = [c \in Cat |-> IdleFrame]
    /\ b = IdleBatch
    /\ d = IdleDispatch
    /\ o = IdleChatbot

NextTurn ==
    \/ \E sid \in RequestIds : chat_endpoint(sid)
    \/ profile_collector_node
    \/ generate_info_collection_response
    \/ generate_query
    \/ search_category
    \/ response_generator_node

SpecTurn == InitTurn /\ [][NextTurn]_vars

----------------------------------------------------------------------------
\* The turn of simple_jeju_chatbot/smart_chatbot_new.py: the same chatbot
\* record, another chat() and another graph (profile_collector, then the
\* four agent nodes, then response_generator).

\* Its is_profile_sufficient: duration, group_type and interests are all set.
is_profile_sufficient_new(p) ==
    Truthy(p.duration) /\ Truthy(p.group_type) /\ p.interests # <<>>

\* What its extract_profile_info can return; one message may name all three
\* fields the profile needs.
ExtractOutcomesNew ==
    ExtractOutcomes
        \cup {[info |-> [NoInfo EXCEPT !.duration = "2n3d", !.group_type = "couple",
                                       !.interests = List(<<"food">>)],
               raised |-> FALSE]}

\* chat_endpoint and chat: the thread is the session id last set, and the
\* graph is invoked with initial_state, whose every key (empty log, a new
\* UserProfile, profile_ready False) replaces the checkpointed value.
chat_new(sid) ==
    /\ o.pc \in {"idle", "returned"}
    /\ o.nturn < MaxTurns
    /\ LET sess == IF sid # "" THEN sid ELSE o.session_id
       IN  o' = [o EXCEPT !.session_id = sess, !.thread = sess, !.state = NewState,
                          !.pc = "extract", !.idx = 0, !.nturn = @ + 1,
                          !.before = NewState.user_profile, !.queries = 0,
                          !.retrievals = 0, !.synth = 0, !.response = "",
                          !.request = sid, !.began = NewState, !.failed = {},
                          !.info = NoInfoYet, !.raised = {}]
    /\ UNCHANGED <<now, lat, qlat, f, b, d>>

\* profile_collector_node up to its second await; when the profile is ready
\* the node returns, the checkpoint is written and the edge "agents" is taken.
profile_collector_new ==
    /\ o.pc = "extract"
    /\ \E x \in ExtractOutcomesNew :
          LET st == [o.state EXCEPT
                        !.conversation_history = Append(@, "user"),
                        !.user_profile = update_profile(@, x.info)]
              oo == [o EXCEPT !.raised = IF x.raised THEN @ \cup {"extract"} ELSE @,
                              !.info = x.info]
          IN  IF ~is_profile_sufficient_new(st.user_profile)
              THEN o' = [oo EXCEPT !.state = st, !.pc = "collect"]
              ELSE o' = [oo EXCEPT !.state = [st EXCEPT !.profile_ready = TRUE],
                                   !.store[o.thread] =
                                       [exists |-> TRUE,
                                        values |-> [st EXCEPT !.profile_ready = TRUE]],
                                   !.pc = "agents", !.idx = 1]
    /\ UNCHANGED <<now, lat, qlat, f, b, d>>

\* The follow-up of a turn that is not ready, and the end of the graph.
info_collection_new ==
    /\ o.pc = "collect"
    /\ \E r \in {"followup", CollectFallback} :
          LET st == [o.state EXCEPT !.conversation_history = Append(@, "assistant"),
                                   !.final_response = r,
                                   !.profile_ready = FALSE]
          IN  o' = [o EXCEPT !.state = st,
                             !.store[o.thread] = [exists |-> TRUE, values |-> st],
                             !.pc = "returned", !.response = r,
                             !.raised = IF r = CollectFallback THEN @ \cup {"collect"} ELSE @]
    /\ UNCHANGED <<now, lat, qlat, f, b, d>>

\* One of the four agent nodes (query generation and search_vector_db in one
\* try/except that gives []), taken in the order hotel, tour, food, event;
\* after the fourth the checkpoint is written.
agent_node ==
    /\ o.pc = "agents"
    /\ \E x \in CategoryOutcomes(Order[o.idx]) :
          LET st == [o.state EXCEPT !.results[Order[o.idx]] = x.items]
          IN  o' = [o EXCEPT !.state = st, !.retrievals = @ + 1,
                             !.failed = IF x.failed THEN @ \cup {Order[o.idx]} ELSE @,
                             !.idx = IF o.idx < 4 THEN @ + 1 ELSE @,
                             !.pc = IF o.idx < 4 THEN @ ELSE "synth",
                             !.store[o.thread] =
                                 IF o.idx < 4 THEN @ ELSE [exists |-> TRUE, values |-> st]]
    /\ UNCHANGED <<now, lat, qlat, f, b, d>>

\* Its response_generator_node: the itinerary is logged and returned, or the
\* apology is returned with the log as it was.
response_generator_new ==
    /\ o.pc = "synth"
    /\ \E st \in {[o.state EXCEPT !.final_response = "itinerary",
                                  !.conversation_history = Append(@, "assistant")],
                  [o.state EXCEPT !.final_response = SynthApology]} :
          o' = [o EXCEPT !.state = st, !.synth = @ + 1,
                         !.store[o.thread] = [exists |-> TRUE, values |-> st],
                         !.pc = "returned", !.response = st.final_response,
                         !.failed = {},
                         !.raised = IF st.final_response = SynthApology
                                    THEN @ \cup {"synth"} ELSE @]
    /\ UNCHANGED <<now, lat, qlat, f, b, d>>

NextTurnNew ==
    \/ \E sid \in RequestIds : chat_new(sid)
    \/ profile_collector_new
    \/ info_collection_new
    \/ agent_node
    \/ response_generator_new

SpecTurnNew == InitTurn /\ [][NextTurnNew]_vars

----------------------------------------------------------------------------
\* calculate_search_counts(duration).  A duration is None or a text; a text
\* is a sequence of characters.  "n" stands for the character 박, "d" for 일,
\* "t" for 당, "h" for 하, "r" for 루; "X" is an upper-case letter.

DigitValue ==
    ("0" :> 0) @@ ("1" :> 1) @@ ("2" :> 2) @@ ("3" :> 3) @@ ("4" :> 4)
        @@ ("5" :> 5) @@ ("6" :> 6) @@ ("7" :> 7) @@ ("8" :> 8) @@ ("9" :> 9)

IsDigit(ch) == ch \in DOMAIN DigitValue

\* The characters the duration texts are made of.
Chars == {"0", "1", "2", "3", "4", "5", "6", "n", "d", "t", "h", "r", "X"}

\* The texts of n characters.
TextsOfLen(n) == [1..n -> Chars]

\* str.lower() on the characters of the model.
LowerChar(ch) == IF ch = "X" THEN "x" ELSE ch

Lower(t) == [i \in 1..Len(t) |-> LowerChar(t[i])]

RECURSIVE FindAllNumbers(_, _, _, _)
\* [int(num) for num in re.findall(r'\d+', text)]: scan from position i with
\* the value of the digit run read so far (run = -1 outside a run).
FindAllNumbers(t, i, run, acc) ==
    IF i > Len(t) THEN (IF run >= 0 THEN Append(acc, run) ELSE acc)
    ELSE IF IsDigit(t[i])
         THEN FindAllNumbers(t, i + 1, (IF run >= 0 THEN run * 10 ELSE 0) + DigitValue[t[i]], acc)
         ELSE FindAllNumbers(t, i + 1, -1, IF run >= 0 THEN Append(acc, run) ELSE acc)

\* The first number of the list.
FirstNumber(s) == s[1]

\* max() of a non-empty list of numbers.
MaxNumber(s) == CHOOSE x \in {s[i] : i \in 1..Len(s)} : \A i \in 1..Len(s) : s[i] <= x

\* word in text
Contains(t, w) ==
    \E i \in 1..(Len(t) - Len(w) + 1) : \A j \in 1..Len(w) : t[i + j - 1] = w[j]

\* The day count the code infers from a non-empty text.
InferDays(text) ==
    LET duration_lower == Lower(text)
        numbers == FindAllNumbers(duration_lower, 1, -1, <<>>)
    IN  IF numbers # <<>> THEN MaxNumber(numbers)
        ELSE IF Contains(duration_lower, <<"t", "d">>) \/ Contains(duration_lower, <<"h", "r">>)
             THEN 1
        ELSE IF Contains(duration_lower, <<"1", "n">>) \/ Contains(duration_lower, <<"2", "d">>)
             THEN 2
        ELSE IF Contains(duration_lower, <<"2", "n">>) \/ Contains(duration_lower, <<"3", "d">>)
             THEN 3
        ELSE IF Contains(duration_lower, <<"3", "n">>) \/ Contains(duration_lower, <<"4", "d">>)
             THEN 4
        ELSE IF Contains(duration_lower, <<"4", "n">>) \/ Contains(duration_lower, <<"5", "d">>)
             THEN 5
        ELSE 3

\* The counts returned when duration is None or "".
NoDurationCounts == [hotel |-> 3, tour |-> 8, food |-> 6, event |-> 3]

\* The frame of a call that has just been made; InitPlan makes it with None
\* and with every text of up to MaxText characters, the empty text included.
PlanCall(dur) ==
    [pc |-> "called", duration |-> dur, inferred |-> FALSE, days |-> 0,
     counts |-> [c \in Cat |-> 0]]

\* if not duration: return the fixed counts.
plan_no_duration ==
    /\ o.pc = "called"
    /\ ~TruthyList(o.duration)
    /\ o' = [o EXCEPT !.pc = "returned", !.counts = NoDurationCounts]
    /\ UNCHANGED <<now, lat, qlat, f, b, d>>

\* The day count is taken from the numbers or the keywords of the text.
plan_infer_days ==
    /\ o.pc = "called"
    /\ TruthyList(o.duration)
    /\ o' = [o EXCEPT !.pc = "bucket", !.inferred = TRUE,
                      !.days = InferDays(o.duration.items)]
    /\ UNCHANGED <<now, lat, qlat, f, b, d>>

\* The bucket of the day count is returned.
plan_bucket ==
    /\ o.pc = "bucket"
    /\ o' = [o EXCEPT !.pc = "returned", !.counts = CountsTable(o.days)]
    /\ UNCHANGED <<now, lat, qlat, f, b, d>>

InitPlan ==
    /\ now = 0
    /\ lat = [c \in Cat |-> 1]
    /\ qlat = 0
    /\ f = [c \in Cat |-> IdleFrame]
    /\ b = IdleBatch
    /\ d = IdleDispatch
    /\ \/ o = PlanCall(NullList)
       \/ \E n \in 0..MaxText : \E t \in TextsOfLen(n) : o = PlanCall(List(t))

NextPlan ==
    \/ plan_no_duration
    \/ plan_infer_days
    \/ plan_bucket

SpecPlan == InitPlan /\ [][NextPlan]_vars

\* ------------------------------------------------- the three planners
\* calculate_search_counts of smart_chatbot.py as one function of the
\* duration field.
calculate_search_counts(dur) ==
    IF ~TruthyList(dur) THEN NoDurationCounts
    ELSE CountsTable(InferDays(dur.items))

\* single_chain_baseline.py: the day count of a non-empty duration text.
ChainInferDays(text) ==
    LET duration_lower == Lower(text)
        numbers == FindAllNumbers(duration_lower, 1, -1, <<>>)
    IN  IF numbers # <<>> THEN MaxNumber(numbers)
        ELSE IF Contains(duration_lower, <<"t", "d">>) \/ Contains(duration_lower, <<"h", "r">>)
             THEN 1
        ELSE IF Contains(duration_lower, <<"1", "n">>) \/ Contains(duration_lower, <<"2", "d">>)
             THEN 2
        ELSE IF Contains(duration_lower, <<"2", "n">>) \/ Contains(duration_lower, <<"3", "d">>)
             THEN 3
        ELSE IF Contains(duration_lower, <<"3", "n">>) \/ Contains(duration_lower, <<"4", "d">>)
             THEN 4
        ELSE IF Contains(duration_lower, <<"4", "n">>) \/ Contains(duration_lower, <<"5", "d">>)
             THEN 5
        ELSE 3

\* single_chain_baseline.py: the counts of a day count.
ChainCountsTable(days) ==
    IF days <= 1 THEN [hotel |-> 3, tour |-> 4, food |-> 3, event |-> 3]
    ELSE IF days <= 2 THEN [hotel |-> 3, tour |-> 6, food |-> 5, event |-> 3]
    ELSE IF days <= 3 THEN [hotel |-> 4, tour |-> 8, food |-> 7, event |-> 3]
    ELSE IF days <= 4 THEN [hotel |-> 4, tour |-> 12, food |-> 10, event |-> 3]
    ELSE IF days <= 5 THEN [hotel |-> 5, tour |-> 15, food |-> 13, event |-> 3]
    ELSE [hotel |-> 5, tour |-> 18, food |-> 16, event |-> 3]

\* SingleChainJejuChatbot.calculate_search_counts.
chain_calculate_search_counts(dur) ==
    IF ~TruthyList(dur) THEN [hotel |-> 3, tour |-> 8, food |-> 6, event |-> 3]
    ELSE ChainCountsTable(ChainInferDays(dur.items))

\* demo_personalized_chatbot.py: duration_days starts at 3 and is replaced
\* by the first of "1박"/"1일" .. "5박"/"5일" found in the text as written.
DemoInferDays(dur) ==
    IF ~TruthyList(dur) THEN 3
    ELSE LET text == dur.items
         IN  IF Contains(text, <<"1", "n">>) \/ Contains(text, <<"1", "d">>) THEN 1
             ELSE IF Contains(text, <<"2", "n">>) \/ Contains(text, <<"2", "d">>) THEN 2
             ELSE IF Contains(text, <<"3", "n">>) \/ Contains(text, <<"3", "d">>) THEN 3
             ELSE IF Contains(text, <<"4", "n">>) \/ Contains(text, <<"4", "d">>) THEN 4
             ELSE IF Contains(text, <<"5", "n">>) \/ Contains(text, <<"5", "d">>) THEN 5
             ELSE 3

\* The search_counts of personalized_parallel_search_all.
personalized_search_counts(dur) == DemoCountsTable(DemoInferDays(dur))

\* One duration field handed to one of the three planners.
PlannersCall(dur) ==
    [pc |-> "called", duration |-> dur, planner |-> "none",
     counts |-> [c \in Cat |-> 0]]

plan_multi_agent ==
    /\ o.pc = "called"
    /\ o' = [o EXCEPT !.pc = "returned", !.planner = "multi_agent",
                      !.counts = calculate_search_counts(o.duration)]
    /\ UNCHANGED <<now, lat, qlat, f, b, d>>

plan_single_chain ==
    /\ o.pc = "called"
    /\ o' = [o EXCEPT !.pc = "returned", !.planner = "single_chain",
                      !.counts = chain_calculate_search_counts(o.duration)]
    /\ UNCHANGED <<now, lat, qlat, f, b, d>>

plan_personalized ==
    /\ o.pc = "called"
    /\ o' = [o EXCEPT !.pc = "returned", !.planner = "personalized",
                      !.counts = personalized_search_counts(o.duration)]
    /\ UNCHANGED <<now, lat, qlat, f, b, d>>

InitPlanners ==
    /\ now = 0
    /\ lat = [c \in Cat |-> 1]
    /\ qlat = 0
    /\ f = [c \in Cat |-> IdleFrame]
    /\ b = IdleBatch
    /\ d = IdleDispatch
    /\ \/ o = PlannersCall(NullList)
       \/ \E n \in 0..MaxText : \E t \in TextsOfLen(n) : o = PlannersCall(List(t))

NextPlanners ==
    \/ plan_multi_agent
    \/ plan_single_chain
    \/ plan_personalized

SpecPlanners == InitPlanners /\ [][NextPlanners]_vars

----------------------------------------------------------------------------
\* update_profile applied twice with the same extraction result.

Tags == {"food", "sea"}

RECURSIVE TagLists(_)
\* The lists of up to n tags.
TagLists(n) ==
    IF n = 0 THEN {<<>>}
    ELSE TagLists(n - 1) \cup {Append(l, g) : l \in TagLists(n - 1), g \in Tags}

NoRepeat(l) == \A i, j \in 1..Len(l) : l[i] = l[j] => i = j

\* The profiles a merge can meet: built from UserProfile() by merges, so the
\* interests hold no tag twice.
Profiles ==
    {[UserProfile EXCEPT !.duration = du, !.group_type = g, !.budget = bu, !.interests = l] :
        du \in {None, "2n3d"}, g \in {None, "couple"}, bu \in {None, "low"},
        l \in {x \in TagLists(MaxInterests) : NoRepeat(x)}}

\* The extraction results: any field may be absent, null or empty, and the
\* interests may name a tag twice.
Infos ==
    {[NoInfo EXCEPT !.duration = du, !.group_type = g, !.budget = bu, !.interests = l] :
        du \in {None, "", "2n3d", "3n4d"}, g \in {None, "family"}, bu \in {None, "high"},
        l \in {NullList} \cup {List(x) : x \in TagLists(MaxInterests)}}

MergeCall(prof, info) ==
    [pc |-> "called", profile |-> prof, info |-> info, once |-> prof, twice |-> prof]

\* update_profile(profile, info)
merge_once ==
    /\ o.pc = "called"
    /\ o' = [o EXCEPT !.pc = "once", !.once = update_profile(o.profile, o.info)]
    /\ UNCHANGED <<now, lat, qlat, f, b, d>>

\* update_profile(the profile it returned, info)
merge_again ==
    /\ o.pc = "once"
    /\ o' = [o EXCEPT !.pc = "twice", !.twice = update_profile(o.once, o.info)]
    /\ UNCHANGED <<now, lat, qlat, f, b, d>>

InitMerge ==
    /\ now = 0
    /\ lat = [c \in Cat |-> 1]
    /\ qlat = 0
    /\ f = [c \in Cat |-> IdleFrame]
    /\ b = IdleBatch
    /\ d = IdleDispatch
    /\ \E prof \in Profiles : \E info \in Infos : o = MergeCall(prof, info)

NextMerge ==
    \/ merge_once
    \/ merge_again

SpecMerge == InitMerge /\ [][NextMerge]_vars

----------------------------------------------------------------------------
\* The profile of one session over its turns: what the collector of each
\* variant does to it (name recognition in the demo, the merge, the
\* sufficiency judgement), starting from a new profile.

\* PersonalizedUserProfile(): the six fields and name, personality,
\* travel_style, all None.
PersonalizedUserProfile ==
    [name |-> None, personality |-> None, travel_style |-> None,
     travel_dates |-> None, duration |-> None, group_type |-> None,
     interests |-> <<>>, budget |-> None, travel_region |-> None]

\* USER_DATA: the users of demo_user_data.json by name; a user record may
\* lack the key personality (dict.get then gives None).
USER_DATA ==
    [kim |-> [personality |-> "egen", travel_style |-> "calm"],
     lee |-> [personality |-> None, travel_style |-> None]]

\* Which known name the user message contains, if any.
Mentions == {"nobody", "kim", "lee"}

\* The name lookup of personalized_profile_collector_node: without a name
\* yet, a known name in the message sets name, personality and travel_style.
recognize_name(p, who) ==
    IF ~Truthy(p.name) /\ who # "nobody"
    THEN [p EXCEPT !.name = who, !.personality = USER_DATA[who].personality,
                   !.travel_style = USER_DATA[who].travel_style]
    ELSE p

\* update_personalized_profile: the six fields as update_profile treats
\* them; name, personality and travel_style are not touched.
update_personalized_profile(p, info) ==
    [name |-> p.name, personality |-> p.personality, travel_style |-> p.travel_style,
     travel_dates  |-> IF Truthy(info.travel_dates) THEN info.travel_dates ELSE p.travel_dates,
     duration      |-> IF Truthy(info.duration) THEN info.duration ELSE p.duration,
     group_type    |-> IF Truthy(info.group_type) THEN info.group_type ELSE p.group_type,
     interests     |-> IF TruthyList(info.interests) THEN AppendNew(p.interests, info.interests.items)
                       ELSE p.interests,
     budget        |-> IF Truthy(info.budget) THEN info.budget ELSE p.budget,
     travel_region |-> IF Truthy(info.travel_region) THEN info.travel_region
                       ELSE p.travel_region]

\* A judgement that, without name and personality, accepts any one of the
\* six fields.
IsPersonalizedSufficientAnyField(p) ==
    IF Truthy(p.name) /\ Truthy(p.personality) THEN TRUE
    ELSE Bool(p.travel_dates) + Bool(p.duration) + Bool(p.group_type)
            + BoolList(p.interests) + Bool(p.budget) + Bool(p.travel_region) >= 1

\* is_personalized_profile_sufficient: name and personality, or else
\* travel_dates or duration.
is_personalized_profile_sufficient(p) ==
    IF Truthy(p.name) /\ Truthy(p.personality) THEN TRUE
    ELSE Truthy(p.travel_dates) \/ Truthy(p.duration)

\* What the extraction of a turn can be: a field may be absent, null, empty
\* or set, and the interests may name a tag twice.
TurnInfos ==
    {[NoInfo EXCEPT !.travel_dates = td, !.duration = du, !.group_type = g, !.interests = l] :
        td \in {None, "aug"}, du \in {None, "", "2n3d", "3n4d"}, g \in {None, "family"},
        l \in {NullList, List(<<>>), List(<<"sea", "food">>), List(<<"food", "food">>)}}

\* The scalar fields of a profile that are set, and its interest tags.
SetFields(p) ==
    {k \in {"travel_dates", "duration", "group_type", "budget", "travel_region"} :
        Truthy(p[k])}

TagsOf(p) == {p.interests[i] : i \in 1..Len(p.interests)}

\* A session before its first turn.
NewSession(variant) ==
    [pc |-> "collecting", variant |-> variant,
     profile |-> IF variant = "demo" THEN PersonalizedUserProfile ELSE UserProfile,
     prev |-> IF variant = "demo" THEN PersonalizedUserProfile ELSE UserProfile,
     info |-> NoInfo, merges |-> 0, ready |-> FALSE, was_ready |-> FALSE,
     ever |-> {}, tags |-> {}]

\* profile_collector_node of smart_chatbot.py, profile part: merge, judge.
collect_turn ==
    /\ o.variant = "smart"
    /\ o.merges < MaxMerges
    /\ \E info \in TurnInfos :
          LET updated == update_profile(o.profile, info)
          IN  o' = [o EXCEPT !.prev = o.profile, !.profile = updated, !.info = info,
                             !.merges = @ + 1, !.was_ready = o.ready \/ o.was_ready,
                             !.ever = @ \cup SetFields(updated),
                             !.tags = @ \cup TagsOf(updated),
                             !.ready = is_profile_sufficient(updated)]
    /\ UNCHANGED <<now, lat, qlat, f, b, d>>

\* personalized_profile_collector_node of the demo, profile part: the name
\* lookup, the merge, the judgement.
collect_turn_personalized ==
    /\ o.variant = "demo"
    /\ o.merges < MaxMerges
    /\ \E who \in Mentions : \E info \in TurnInfos :
          LET updated == update_personalized_profile(recognize_name(o.profile, who), info)
          IN  o' = [o EXCEPT !.prev = o.profile, !.profile = updated, !.info = info,
                             !.merges = @ + 1, !.was_ready = o.ready \/ o.was_ready,
                             !.ever = @ \cup SetFields(updated),
                             !.tags = @ \cup TagsOf(updated),
                             !.ready = is_personalized_profile_sufficient(updated)]
    /\ UNCHANGED <<now, lat, qlat, f, b, d>>

InitCollect ==
    /\ now = 0
    /\ lat = [c \in Cat |-> 1]
    /\ qlat = 0
    /\ f = [c \in Cat |-> IdleFrame]
    /\ b = IdleBatch
    /\ d = IdleDispatch
    /\ \E variant \in {"smart", "demo"} : o = NewSession(variant)

NextCollect ==
    \/ collect_turn
    \/ collect_turn_personalized

SpecCollect == InitCollect /\ [][NextCollect]_vars

----------------------------------------------------------------------------
\* One call of a sufficiency judgement, for every profile: each scalar field
\* None, "" or set, the interests empty or not, and in the demo a name and a
\* personality that are None, "" or set.

\* SingleChainJejuChatbot.is_profile_sufficient: the same count of the six
\* fields, at least 3.
chain_is_profile_sufficient(p) ==
    Bool(p.travel_dates) + Bool(p.duration) + Bool(p.group_type)
        + BoolList(p.interests) + Bool(p.budget) + Bool(p.travel_region) >= 3

FieldValues(v) == {None, "", v}

JudgedProfiles ==
    {[travel_dates |-> td, duration |-> du, group_type |-> g, interests |-> l,
      budget |-> bu, travel_region |-> tr] :
        td \in FieldValues("aug"), du \in FieldValues("2n3d"), g \in FieldValues("couple"),
        l \in {<<>>, <<"food">>}, bu \in FieldValues("low"), tr \in FieldValues("jeju")}

JudgeCall(variant, prof) ==
    [pc |-> "called", variant |-> variant, profile |-> prof, result |-> FALSE]

judge ==
    /\ o.pc = "called" /\ o.variant = "smart"
    /\ o' = [o EXCEPT !.pc = "returned", !.result = is_profile_sufficient(o.profile)]
    /\ UNCHANGED <<now, lat, qlat, f, b, d>>

judge_chain ==
    /\ o.pc = "called" /\ o.variant = "chain"
    /\ o' = [o EXCEPT !.pc = "returned", !.result = chain_is_profile_sufficient(o.profile)]
    /\ UNCHANGED <<now, lat, qlat, f, b, d>>

judge_personalized ==
    /\ o.pc = "called" /\ o.variant = "demo"
    /\ o' = [o EXCEPT !.pc = "returned",
                      !.result = is_personalized_profile_sufficient(o.profile)]
    /\ UNCHANGED <<now, lat, qlat, f, b, d>>

InitJudge ==
    /\ now = 0
    /\ lat = [c \in Cat |-> 1]
    /\ qlat = 0
    /\ f = [c \in Cat |-> IdleFrame]
    /\ b = IdleBatch
    /\ d = IdleDispatch
    /\ \E prof \in JudgedProfiles :
          \/ \E variant \in {"smart", "chain"} : o = JudgeCall(variant, prof)
          \/ \E nm \in FieldValues("kim") : \E ps \in FieldValues("egen") :
                o = JudgeCall("demo", [name |-> nm, personality |-> ps,
                                       travel_style |-> None] @@ prof)

NextJudge ==
    \/ judge
    \/ judge_chain
    \/ judge_personalized

SpecJudge == InitJudge /\ [][NextJudge]_vars

\* ================================================================== claims
Kinds(evs) == [j \in 1..Len(evs) |-> <<evs[j].kind, evs[j].val>>]

AttemptsMade(fr) == Cardinality({j \in 1..Len(fr.events) : fr.events[j].kind = "attempt"})

PersistentFailureTrace ==
    << <<"attempt", 0>>, <<"sleep", 1>>, <<"attempt", 1>>, <<"sleep", 2>>,
       <<"attempt", 2>>, <<"return", 2>> >>

\* C1: search_vector_db never raises to its caller, and when every attempt
\* fails (non-200, read timeout, connect timeout or any other error) it has
\* made exactly max_retries = 3 attempts and returns an empty list.
C1_NeverRaisesThreeAttemptsEmpty ==
    \A c \in Cat :
        /\ f[c].pc # "raised"
        /\ (f[c].pc = "returned" /\ ~f[c].ok) =>
              /\ AttemptsMade(f[c]) = 3
              /\ f[c].attempt = 2
              /\ f[c].result = <<>>

C1_Witness ==
    /\ f["hotel"].pc = "returned"
    /\ ~f["hotel"].ok
    /\ AttemptsMade(f["hotel"]) = 3

\* C2: after failed attempt i a backoff sleep of 2^i seconds precedes attempt
\* i+1 exactly when attempts remain: every event trace is attempt 0, sleep 1,
\* attempt 1, sleep 2, attempt 2 cut at some attempt and closed by the return;
\* the next attempt starts 2^i seconds after the sleep began, and under
\* persistent failure the trace is the full one with no sleep after attempt 2.
C2_BackoffOrder ==
    \A c \in Cat :
        LET evs == f[c].events
            n == Len(evs)
        IN  /\ \A j \in 1..n :
                  \/ /\ evs[j].kind = "attempt"
                     /\ evs[j].val = (j - 1) \div 2
                     /\ j % 2 = 1
                     /\ j > 1 => /\ evs[j - 1].kind = "sleep"
                                 /\ evs[j].at = evs[j - 1].at + evs[j - 1].val
                  \/ /\ evs[j].kind = "sleep"
                     /\ j % 2 = 0
                     /\ evs[j - 1].kind = "attempt"
                     /\ evs[j].val = 2 ^ evs[j - 1].val
                     /\ evs[j - 1].val < 2
                  \/ /\ evs[j].kind = "return"
                     /\ j = n
                     /\ j > 1
                     /\ evs[j - 1].kind = "attempt"
            /\ (f[c].pc = "backoff") =>
                  /\ evs[n].kind = "sleep"
                  /\ f[c].wake = evs[n].at + evs[n].val
            /\ (f[c].pc = "returned" /\ ~f[c].ok) => Kinds(evs) = PersistentFailureTrace

C2_Witness ==
    /\ f["hotel"].pc = "returned"
    /\ ~f["hotel"].ok
    /\ Kinds(f["hotel"].events) = PersistentFailureTrace
    /\ now = 3 * lat["hotel"] + 3

NoDuplicates(s) == \A i, j \in 1..Len(s) : s[i] = s[j] => i = j

\* C4: a search_with_batching call with total_count <= 20 makes exactly one
\* search_vector_db call, asking for total_count items; with total_count > 20
\* it has made more than one call when it returns.
C4_OneCallUpTo20 ==
    /\ (b.pc # "idle" /\ b.total <= 20) => b.requested = <<b.total>>
    /\ (b.pc = "done" /\ b.total > 20) => Len(b.requested) > 1

C4_Witness ==
    /\ b.pc = "done"
    /\ b.total > 20
    /\ Len(b.requested) >= 4

\* C5: the list search_with_batching returns holds no two items with the
\* same name, whatever the collaborator answered.
C5_NoDuplicateNames == b.pc = "done" => NoDuplicates(b.final)

\* C6: search_with_batching never returns more than total_count items, on the
\* direct and on the batched path (where the accumulated list never exceeds
\* total_count either); it may return fewer.
C6_AtMostTotal ==
    /\ b.pc # "idle" => Len(b.all_results) <= b.total
    /\ b.pc = "done" => Len(b.final) <= b.total

C6_Witness ==
    /\ b.pc = "done"
    /\ Len(b.final) = b.total
    /\ Len(f["hotel"].sources) > b.total

C6_WitnessBatched ==
    /\ b.pc = "done"
    /\ b.total > 20
    /\ Len(b.final) > 0
    /\ Len(b.final) < b.total

Sum4(fn) == fn["hotel"] + fn["tour"] + fn["food"] + fn["event"]

Max2(x, y) == IF x >= y THEN x ELSE y

Max4(fn) == Max2(Max2(fn["hotel"], fn["tour"]), Max2(fn["food"], fn["event"]))

CatTime == [c \in Cat |-> d.cend[c] - d.cstart[c]]

FirstTryAll == \A c \in Cat : f[c].ok /\ f[c].attempt = 0

\* C7: in concurrent mode the four category tasks all start at the instant
\* of the launch, the dispatch is done only when all four have ended, and
\* each category's slot of the result is what its own search returned, or
\* the empty list when it failed or raised, whatever the other three did.
C7_ConcurrentIsolation ==
    d.mode = "concurrent" =>
        /\ \A c \in Cat : d.task[c] \in {"fetching", "raised"} => d.cstart[c] = d.t0
        /\ (d.pc = "gather" /\ now > d.t0) => \A c \in Cat : d.task[c] # "ready"
        /\ d.pc = "done" =>
              \A c \in Cat :
                  /\ d.task[c] = "raised" \/ f[c].pc = "returned"
                  /\ d.cend[c] <= d.t1
                  /\ d.task[c] = "raised" => d.results[c] = <<>>
                  /\ (d.task[c] # "raised" /\ ~f[c].ok) => d.results[c] = <<>>
                  /\ (d.task[c] # "raised" /\ f[c].ok) =>
                        d.results[c] = SubSeq(f[c].sources, 1, Len(d.results[c]))
                           /\ Len(d.results[c]) = Min(Len(f[c].sources), d.counts[c])

C7_Witness ==
    /\ d.mode = "concurrent"
    /\ d.pc = "done"
    /\ d.task["hotel"] = "raised"
    /\ f["tour"].pc = "returned" /\ ~f["tour"].ok
    /\ d.results["food"] # <<>>
    /\ d.results["event"] # <<>>
    /\ d.cend["event"] < d.cend["food"]

IndexOf(c) == CHOOSE i \in 1..4 : <<"hotel", "tour", "food", "event">>[i] = c

C9_MaxVersusSum ==
    d.pc = "done" =>
        LET elapsed == d.t1 - d.t0
        IN  /\ d.mode = "concurrent" =>
                  /\ elapsed = Max4(CatTime)
                  /\ FirstTryAll => elapsed = Max4(lat)
            /\ d.mode = "sequential" =>
                  /\ elapsed = Sum4(CatTime) + 4 * 1 + 5
                  /\ FirstTryAll => elapsed = Sum4(lat) + 9
            /\ d.mode = "chain" =>
                  /\ elapsed = Sum4(CatTime) + Cardinality({c \in Cat : d.task[c] = "done"})
                  /\ FirstTryAll => elapsed = Sum4(lat) + 4 * qlat + 4

C9_Witness ==
    /\ d.mode = "concurrent"
    /\ d.pc = "done"
    /\ FirstTryAll
    /\ lat["hotel"] = 1 /\ lat["tour"] = 2 /\ lat["food"] = 2
    /\ d.t1 - d.t0 = 2

C9_WitnessSequential ==
    /\ d.mode = "chain"
    /\ d.pc = "done"
    /\ FirstTryAll
    /\ lat["hotel"] = 1 /\ lat["tour"] = 2 /\ lat["food"] = 2
    /\ d.t1 - d.t0 > 6

FieldsSet(p) ==
    Cardinality({k \in {"travel_dates", "duration", "group_type", "budget", "travel_region"} :
                    p[k] \notin {None, ""}})
        + (IF Len(p.interests) > 0 THEN 1 ELSE 0)

TurnJudged == o.pc \in {"collect", "queries", "search", "synth", "returned"}

\* C10: on a turn whose merged profile has fewer than 3 of the 6 fields set
\* no query is generated, no retrieval call and no synthesis call is made,
\* the turn answers with the follow-up and leaves the session not ready;
\* query generation, retrieval and synthesis happen only on a turn whose
\* merged profile is sufficient.
C10_InsufficientTurnCollects ==
    /\ (TurnJudged /\ FieldsSet(o.state.user_profile) < 3) =>
          /\ o.queries = 0 /\ o.retrievals = 0 /\ o.synth = 0
          /\ o.pc \in {"collect", "returned"}
          /\ o.pc = "returned" =>
                /\ o.response \in {"followup", CollectFallback}
                /\ o.store[o.thread].exists
                /\ o.store[o.thread].values = o.state
                /\ o.state.profile_ready = FALSE
                /\ o.state.final_response = o.response
    /\ (o.pc \in {"queries", "search", "synth"} \/ o.queries > 0 \/ o.retrievals > 0
           \/ o.synth > 0) =>
          /\ FieldsSet(o.state.user_profile) >= 3
          /\ o.state.profile_ready

C10_Witness ==
    /\ o.pc = "returned"
    /\ o.nturn = 2
    /\ FieldsSet(o.before) = 1
    /\ FieldsSet(o.state.user_profile) = 2
    /\ o.response = "followup"
    /\ Len(o.state.conversation_history) = 4
    /\ o.retrievals = 0 /\ o.synth = 0

C10_WitnessDispatch ==
    /\ o.pc = "returned"
    /\ FieldsSet(o.before) = 2
    /\ FieldsSet(o.state.user_profile) = 3
    /\ o.retrievals = 4 /\ o.synth = 1
    /\ o.response = "itinerary"

Last(s) == s[Len(s)]

TurnStep ==
    \/ profile_collector_node
    \/ generate_info_collection_response
    \/ generate_query
    \/ search_category
    \/ response_generator_node

ItemsOf(c) == <<IndexOf(c)>>

C12_WitnessAllFail ==
    /\ o.pc = "synth"
    /\ o.failed = Cat

\* C13: a turn whose synthesis call failed or timed out returns the fixed
\* apology, and its checkpoint keeps what the turn did before: the profile
\* is the turn's starting profile merged with the turn's extraction, the log
\* is the starting log plus the user message (the apology itself is not
\* logged), the session stays ready and holds the four retrieved lists.  A
\* turn that starts from such a checkpoint starts at the collector with that
\* profile and log.
C13_SynthesisFailureKeepsState ==
    /\ (o.pc = "returned" /\ "synth" \in o.raised) =>
          /\ o.response = SynthApology
          /\ o.synth = 1 /\ o.retrievals = 4
          /\ o.store[o.thread].exists
          /\ LET kept == o.store[o.thread].values
             IN  /\ kept.user_profile = update_profile(o.began.user_profile, o.info)
                 /\ kept.conversation_history = Append(o.began.conversation_history, "user")
                 /\ kept.profile_ready
                 /\ kept.final_response = SynthApology
                 /\ kept.results = o.state.results
    /\ (o.pc = "extract" /\ o.began.final_response = SynthApology) =>
          /\ o.began.profile_ready
          /\ Last(o.began.conversation_history) = "user"
          /\ o.began = o.store[o.thread].values
          /\ ENABLED profile_collector_node

C13_Witness ==
    /\ o.pc = "returned"
    /\ o.nturn = 3
    /\ o.began.final_response = SynthApology
    /\ "synth" \in o.raised
    /\ o.info.duration = "2n3d"
    /\ o.began.user_profile.duration = "3n4d"
    /\ Len(o.state.conversation_history) = 4

\* C14: a turn whose extraction reply could not be parsed extracts nothing:
\* the profile after the merge is the profile the turn started with, and
\* the turn ends with one of the responses of a turn (follow-up, itinerary,
\* apology or fallback).
C14_UnparsedExtractionChangesNothing ==
    ("extract" \in o.raised) =>
        /\ o.info = NoInfo
        /\ o.state.user_profile = o.before
        /\ o.state.user_profile = o.began.user_profile
        /\ o.state.profile_ready = (FieldsSet(o.began.user_profile) >= 3)
        /\ o.pc = "returned" =>
              /\ o.response \in {"followup", CollectFallback, "itinerary",
                                 SynthApology, ChatFallback}
              /\ o.response # ChatFallback =>
                    o.store[o.thread].values.user_profile = o.began.user_profile

C14_Witness ==
    /\ o.pc = "returned"
    /\ o.raised = {"extract"}
    /\ o.nturn = 3
    /\ o.began.user_profile.duration = "3n4d"
    /\ o.began.user_profile.group_type = "couple"
    /\ o.began.user_profile.budget = "low"
    /\ o.state.user_profile = o.began.user_profile
    /\ o.response = "itinerary"

\* C15: a turn starts from what the previous turn of its session left: at
\* the start of a turn the profile, the log and the ready flag the turn
\* works on are those of the session's checkpoint, and they are empty only
\* when the session has no checkpoint yet.
C15_TurnStartsWhereSessionStopped ==
    (o.pc = "extract") =>
        LET left == IF o.store[o.thread].exists THEN o.store[o.thread].values
                    ELSE NewState
        IN  /\ o.began.user_profile = left.user_profile
            /\ o.began.conversation_history = left.conversation_history
            /\ o.began.profile_ready = left.profile_ready

\* The same statement for a turn of smart_chatbot.py whose aget_state call
\* returned.
C15_LoadedTurnStartsWhereSessionStopped ==
    ("load" \notin o.raised) => C15_TurnStartsWhereSessionStopped

\* The session a request belongs to, as the response reports it:
\* request.session_id or "default".
RequestSession == IF o.request # "" THEN o.request ELSE "default"

\* C16: a turn works on the checkpoint of its own session only: the thread
\* it loaded its profile and log from, and writes them to, is the session of
\* the request, also for a request that carries no session id.
C16_TurnStaysInItsSession ==
    (o.pc # "idle") => o.thread = RequestSession

\* The same statement for requests that carry a session id.
C16_NamedSessionIsolated ==
    (o.pc # "idle" /\ o.request # "") =>
        /\ o.thread = o.request
        /\ (o.pc = "extract" /\ "load" \notin o.raised /\ o.store[o.request].exists) =>
               o.began = o.store[o.request].values

\* C17: the counts returned for an inferred day count are, in every
\* category, at least the counts of every smaller day count: of each of the
\* buckets below it (day counts 0 to 6 stand for the six buckets) and of the
\* day count just below it.
C17_CountsMonotoneInDays ==
    (o.pc = "returned" /\ o.inferred) =>
        /\ o.counts = CountsTable(o.days)
        /\ \A k \in 0..6 : \A c \in Cat :
              /\ k <= o.days => CountsTable(k)[c] <= o.counts[c]
              /\ k >= o.days => CountsTable(k)[c] >= o.counts[c]
        /\ o.days >= 1 => \A c \in Cat : CountsTable(o.days - 1)[c] <= o.counts[c]

C17_Witness ==
    /\ o.pc = "returned"
    /\ o.inferred
    /\ o.days = 4
    /\ o.duration = List(<<"3", "n", "4", "d">>)
    /\ o.counts = [hotel |-> 4, tour |-> 12, food |-> 10, event |-> 3]

C17_WitnessSixPlus ==
    /\ o.pc = "returned"
    /\ o.days = 16
    /\ o.counts = [hotel |-> 5, tour |-> 18, food |-> 16, event |-> 3]

\* The value of the digits t[i..j] read as a decimal number.
RECURSIVE RunValue(_, _, _)
RunValue(t, i, j) ==
    IF j < i THEN 0 ELSE RunValue(t, i, j - 1) * 10 + DigitValue[t[j]]

\* t[i..j] is a digit run of t that cannot be extended.
IsNumberAt(t, i, j) ==
    /\ i <= j
    /\ \A k \in i..j : IsDigit(t[k])
    /\ i > 1 => ~IsDigit(t[i - 1])
    /\ j < Len(t) => ~IsDigit(t[j + 1])

HasDigit(t) == \E i \in 1..Len(t) : IsDigit(t[i])

C18_WitnessLargestFirst ==
    /\ o.pc = "returned"
    /\ o.duration = List(<<"1", "2", "n", "5">>)
    /\ o.days = 12
    /\ o.counts = [hotel |-> 5, tour |-> 18, food |-> 16, event |-> 3]

\* The text holds one of the keywords the code looks for.
HasKeyword(t) ==
    \E w \in {<<"t", "d">>, <<"h", "r">>, <<"1", "n">>, <<"2", "d">>, <<"2", "n">>,
              <<"3", "d">>, <<"3", "n">>, <<"4", "d">>, <<"4", "n">>, <<"5", "d">>} :
        Contains(Lower(t), w)

\* C19: a call whose duration is missing, empty, or a text with neither a
\* digit nor a keyword returns the counts of a three-day trip.
C19_UnparsedGivesThreeDayBucket ==
    (/\ o.pc = "returned"
     /\ \/ ~TruthyList(o.duration)
        \/ ~HasDigit(o.duration.items) /\ ~HasKeyword(o.duration.items)) =>
        o.counts = CountsTable(3)

\* The same statement for the texts that are not empty.
C19_UnparsedTextGivesThreeDayBucket ==
    (/\ o.pc = "returned"
     /\ TruthyList(o.duration)
     /\ ~HasDigit(o.duration.items) /\ ~HasKeyword(o.duration.items)) =>
        o.counts = CountsTable(3) /\ o.days = 3

\* C20: merging the same extraction result a second time changes nothing:
\* the profile after two merges equals the profile after one, in every
\* scalar field and in the interests with their order.
C20_MergeIdempotent ==
    (o.pc = "twice") =>
        /\ o.once = update_profile(o.profile, o.info)
        /\ o.twice = o.once
        /\ o.twice.interests = o.once.interests

C20_Witness ==
    /\ o.pc = "twice"
    /\ o.profile.interests = <<"food">>
    /\ o.profile.duration = "2n3d"
    /\ o.info.interests = List(<<"sea", "sea">>)
    /\ o.info.duration = "3n4d"
    /\ o.info.budget = None
    /\ o.once.interests = <<"food", "sea">>
    /\ o.twice.duration = "3n4d"

\* C21: in both variants, after any sequence of merges every scalar field
\* that was set after some earlier merge is still set, and every interest
\* tag the profile held is still in it; the last merge, whatever its
\* extraction held (None, "", [], a missing key), unset nothing.
C21_MergeNeverRegresses ==
    (o.pc = "collecting") =>
        /\ \A k \in o.ever : Truthy(o.profile[k])
        /\ \A g \in o.tags : g \in TagsOf(o.profile)
        /\ SetFields(o.prev) \subseteq SetFields(o.profile)
        /\ TagsOf(o.prev) \subseteq TagsOf(o.profile)
        /\ Len(o.profile.interests) >= Len(o.prev.interests)

C21_Witness ==
    /\ o.variant = "smart"
    /\ o.merges = 3
    /\ o.prev.duration = "2n3d"
    /\ o.prev.group_type = "family"
    /\ o.prev.interests = <<"sea", "food">>
    /\ o.info.duration = ""
    /\ o.info.group_type = None
    /\ o.info.interests = List(<<>>)
    /\ o.profile = o.prev

C21_WitnessPersonalized ==
    /\ o.variant = "demo"
    /\ o.merges = 2
    /\ o.prev.travel_dates = "aug"
    /\ o.prev.interests = <<"food">>
    /\ o.info = NoInfo
    /\ o.profile.travel_dates = "aug"
    /\ o.profile.interests = <<"food">>

ScalarFields == {"travel_dates", "duration", "group_type", "budget", "travel_region"}

\* C22 as stated: a scalar field that held a value before the merge holds
\* exactly that value after it.
C22_SetScalarKeepsItsValue ==
    (o.pc = "collecting") =>
        \A k \in SetFields(o.prev) : o.profile[k] = o.prev[k]

\* C22: after a merge every scalar field holds the extraction's value when
\* that value is set (a value already there is replaced by it) and holds
\* its earlier value otherwise; the interests are the earlier list followed
\* by appended tags.
C22_MergeOverwritesWithSetValues ==
    (o.pc = "collecting") =>
        /\ \A k \in ScalarFields :
              o.profile[k] = IF Truthy(o.info[k]) THEN o.info[k] ELSE o.prev[k]
        /\ \A k \in SetFields(o.prev) :
              o.profile[k] # o.prev[k] => (Truthy(o.info[k]) /\ o.profile[k] = o.info[k])
        /\ SubSeq(o.profile.interests, 1, Len(o.prev.interests)) = o.prev.interests

C22_Witness ==
    /\ o.variant = "smart"
    /\ o.prev.duration = "2n3d"
    /\ o.prev.group_type = "family"
    /\ o.info.duration = "3n4d"
    /\ o.info.group_type = None
    /\ o.profile.duration = "3n4d"
    /\ o.profile.group_type = "family"

\* The position of the first occurrence of tag g in the list l.
FirstAt(l, g) == CHOOSE i \in 1..Len(l) : l[i] = g /\ \A j \in 1..(i - 1) : l[j] # g

\* C23: from a new profile, after any sequence of merges the interests hold
\* no tag twice; the last merge kept the earlier tags in place as a prefix,
\* added exactly the extracted tags that were missing, and put them in the
\* order of their first occurrence in the extraction.
C23_InterestsDistinctInFirstSeenOrder ==
    (o.pc = "collecting") =>
        LET old == o.prev.interests
            cur == o.profile.interests
            given == IF TruthyList(o.info.interests) THEN o.info.interests.items ELSE <<>>
        IN  /\ NoRepeat(cur)
            /\ SubSeq(cur, 1, Len(old)) = old
            /\ TagsOf(o.profile) = TagsOf(o.prev) \cup {given[i] : i \in 1..Len(given)}
            /\ \A i, j \in (Len(old) + 1)..Len(cur) :
                  i < j => FirstAt(given, cur[i]) < FirstAt(given, cur[j])

C23_Witness ==
    /\ o.variant = "smart"
    /\ o.merges = 3
    /\ o.prev.interests = <<"food">>
    /\ o.info.interests = List(<<"sea", "food">>)
    /\ o.profile.interests = <<"food", "sea">>

C23_WitnessOrderGiven ==
    /\ o.prev.interests = <<>>
    /\ o.info.interests = List(<<"sea", "food">>)
    /\ o.profile.interests = <<"sea", "food">>

\* C24: in smart_chatbot.py and in the single chain the judgement is true
\* exactly when at least 3 of travel_dates, duration, group_type, interests,
\* budget, travel_region are set; with only the duration it is false, with
\* duration, group_type and interests it is true.
C24_SufficientIffThreeFields ==
    (o.pc = "returned" /\ o.variant \in {"smart", "chain"}) =>
        /\ o.result = (FieldsSet(o.profile) >= 3)
        /\ (SetFields(o.profile) = {"duration"} /\ o.profile.interests = <<>>) => ~o.result
        /\ ({"duration", "group_type"} \subseteq SetFields(o.profile)
               /\ o.profile.interests # <<>>) => o.result

C24_Witness ==
    /\ o.pc = "returned" /\ o.variant = "smart"
    /\ SetFields(o.profile) = {"duration", "group_type"}
    /\ o.profile.interests = <<"food">>
    /\ o.profile.budget = ""
    /\ o.result

C24_WitnessOnlyDuration ==
    /\ o.pc = "returned" /\ o.variant = "chain"
    /\ SetFields(o.profile) = {"duration"}
    /\ o.profile.interests = <<>>
    /\ ~o.result

\* C25 as stated: the demo's judgement is true when name and personality are
\* set, and otherwise exactly when at least one of the six fields is set.
C25_ShortcutOrAnyOneField ==
    (o.pc = "returned" /\ o.variant = "demo") =>
        o.result = (\/ Truthy(o.profile.name) /\ Truthy(o.profile.personality)
                    \/ FieldsSet(o.profile) >= 1)

\* C25: the demo's judgement is true when name and personality are both
\* set, and otherwise exactly when travel_dates or duration is set; the
\* other four fields do not count.
C25_ShortcutOrDatesOrDuration ==
    (o.pc = "returned" /\ o.variant = "demo") =>
        /\ (Truthy(o.profile.name) /\ Truthy(o.profile.personality)) => o.result
        /\ ~(Truthy(o.profile.name) /\ Truthy(o.profile.personality)) =>
              o.result = ({"travel_dates", "duration"} \cap SetFields(o.profile) # {})

C25_Witness ==
    /\ o.pc = "returned" /\ o.variant = "demo"
    /\ o.profile.name = "kim" /\ o.profile.personality = None
    /\ SetFields(o.profile) = {"group_type", "budget", "travel_region"}
    /\ o.profile.interests = <<"food">>
    /\ ~o.result

C25_WitnessShortcut ==
    /\ o.pc = "returned" /\ o.variant = "demo"
    /\ o.profile.name = "kim" /\ o.profile.personality = "egen"
    /\ FieldsSet(o.profile) = 0
    /\ o.result

\* The number of batch calls issued so far by the splitting loop.
BatchesIssued == Len(b.requested)

\* C26: on the splitting path (total > 20) the loop issues at most
\* ceil(total / batch_size) batch calls, a batch call is issued only after
\* the one before it returned, and a further batch is issued (or waited
\* for in the pause) only while the accumulated count is below total and,
\* once 3 batches were issued, below half of total.
C26_BatchesBoundedSequentialEarlyExit ==
    (b.pc # "idle" /\ b.total > DirectLimit) =>
        /\ BatchesIssued <= (b.total + b.batch_size - 1) \div b.batch_size
        /\ BatchesIssued * b.batch_size < b.total + b.batch_size
        /\ BatchesIssued = b.batch_num + 1
        /\ b.pc \in {"pause", "done"} => f[b.cat].pc = "returned"
        /\ b.pc = "pause" =>
              /\ Len(b.all_results) < b.total
              /\ BatchesIssued >= 3 => 2 * Len(b.all_results) < b.total
        /\ (b.pc = "batch" /\ BatchesIssued >= 2) =>
              /\ Len(b.all_results) < b.total
              /\ BatchesIssued >= 4 => 2 * Len(b.all_results) < b.total

C26_Witness ==
    /\ b.pc = "done"
    /\ b.total = 22 /\ b.batch_size = 6
    /\ BatchesIssued = 3
    /\ Len(b.all_results) = 13
    /\ Len(b.final) = 13

C26_WitnessLateExit ==
    /\ b.pc = "done"
    /\ b.total = 22 /\ b.batch_size = 3
    /\ BatchesIssued = 4
    /\ Len(b.all_results) = 12

C26_WitnessFourthBatch ==
    /\ b.pc = "batch"
    /\ b.total = 21 /\ b.batch_size = 3
    /\ BatchesIssued = 4
    /\ Len(b.all_results) = 9

\* The dispatch is over: it returned, or a query-generation call of
\* parallel_search_all raised out of it.
DispatchOver == d.pc \in {"done", "raised"}

C27_WitnessSequential ==
    /\ d.pc = "done"
    /\ d.mode = "sequential"
    /\ f["food"].attempt = max_retries - 1 /\ ~f["food"].ok
    /\ d.results["food"] = <<>>
    /\ d.results["event"] # <<>>

\* C28: for every duration text the three planners return the same counts:
\* whichever planner a duration was handed to, the counts it returned are
\* those of the multi-agent calculate_search_counts, of the single-chain
\* calculate_search_counts and of the personalized dispatcher's table.
C28_PlannersAgree ==
    o.pc = "returned" =>
        /\ o.counts = calculate_search_counts(o.duration)
        /\ o.counts = chain_calculate_search_counts(o.duration)
        /\ o.counts = personalized_search_counts(o.duration)

\* The part that holds: the single-chain planner returns what the
\* multi-agent planner returns for the same duration.
C28_SingleChainAgrees ==
    /\ (o.pc = "returned" /\ o.planner = "single_chain") =>
            o.counts = calculate_search_counts(o.duration)
    /\ (o.pc = "returned" /\ o.planner = "multi_agent") =>
            o.counts = chain_calculate_search_counts(o.duration)

\* "2박3일" handed to the personalized planner: it returns the two-day row.
C28_WitnessPersonalizedDiffers ==
    /\ o.pc = "returned"
    /\ o.planner = "personalized"
    /\ o.duration = List(<<"2", "n", "3", "d">>)
    /\ o.counts = [hotel |-> 3, tour |-> 6, food |-> 5, event |-> 3]
    /\ calculate_search_counts(o.duration) = [hotel |-> 4, tour |-> 8, food |-> 7, event |-> 3]

C29_WitnessPersonalized ==
    /\ o.variant = "demo"
    /\ o.merges = MaxMerges
    /\ o.was_ready /\ o.ready
    /\ o.profile.personality = None
    /\ o.info.duration = None /\ o.info.travel_dates = None

\* C30: every count the planner returns is at most 20, so the
\* search_with_batching call the dispatcher makes for a category with that
\* count and batch_size 3 takes the direct path: it asks search_vector_db
\* once, for exactly the planned count, and plans no batches.
C30_PlannedCountsTakeDirectPath ==
    o.pc = "returned" =>
        \A c \in Cat :
            /\ o.counts[c] >= 1
            /\ o.counts[c] <= DirectLimit
            /\ IsDirect(o.counts[c])
            /\ BatchStart(c, o.counts[c], SeqBatchSize).pc = "direct"
            /\ BatchStart(c, o.counts[c], SeqBatchSize).requested = <<o.counts[c]>>
            /\ BatchStart(c, o.counts[c], SeqBatchSize).batches_needed = 0

\* A trip of six days or more: the largest counts the planner has.
C30_Witness ==
    /\ o.pc = "returned"
    /\ o.inferred
    /\ o.days >= 6
    /\ o.counts["tour"] = 18
    /\ BatchStart("tour", o.counts["tour"], SeqBatchSize).pc = "direct"

\* No duration: the fixed counts.
C30_WitnessNoDuration ==
    /\ o.pc = "returned"
    /\ ~o.inferred
    /\ o.counts["tour"] = 8
    /\ BatchStart("tour", o.counts["tour"], SeqBatchSize).requested = <<8>>

====
